---- MODULE Spec2Model ----
(***************************************************************************)
(* Model of the commit/reveal orchestrator (class Inscriber) of the        *)
(* inscription SDK: generateCommit / recover (dry run through preview),    *)
(* isReady / fetchAndSelectSuitableUnspent and build, together with the    *)
(* UTXO data source it polls.                                              *)
(*                                                                         *)
(* generateCommit and recover are asynchronous: they are split at their    *)
(* await points (the UTXO lookup of preview and the prepare() of build),   *)
(* where other calls on the same instance can run.                         *)
(***************************************************************************)
EXTENDS Integers, Sequences, FiniteSets, TLC

\* ---------------------------------------------------------------- bounds
MaxUtxos == 1          \* UTXOs ever sent to the commit address
MaxOutputs == 2        \* build() is not called once outputs is this long
MaxExtra == 1          \* caller-specified extra outputs at construction

\* ------------------------------------------------------ program constants
MINIMUM_AMOUNT_IN_SATS == 600
DummySats == 2885      \* value carried by the placeholder taproot input
BaseVSize == 40        \* virtual size of a transaction without outputs
OutputVSize == 20      \* virtual size of one output

\* inputs the constructor and the environment are drawn from
Postages == {330, 1000}
FeeRates == {2}
TaptreeVersions == {"1", "2"}
ExtraValues == {700}
FundValues == {900, 2500}
CustomAmounts == {100, 800}

DestinationAddress == "destination"
ChangeAddress == "change"
CommitAddr == "commit"

VARIABLES
  postage, feeRate, taptreeVersion, callerOutputs,  \* constructor arguments
  ready, commitAddress, payment, suitableUnspent, recovery, recoverAmount,
  previewMode, inputs, outputs, fee, outputAmount,  \* Inscriber / PSBTBuilder fields
  chain,       \* spendable UTXOs at the commit address (data source)
  pc, op,      \* position of the generateCommit()/recover() in flight
  pre,         \* fields as they were when the call in flight started
  ret,         \* outcome of the last call that terminated
  state,       \* lifecycle: EMPTY, COMMITTED, READY, BUILT, FAILED
  args,        \* arguments of the stand-alone function called (none for Inscriber)
  result       \* what that function returned or threw

inscriberVars == <<postage, feeRate, taptreeVersion, callerOutputs, ready, commitAddress,
          payment, suitableUnspent, recovery, recoverAmount, previewMode, inputs,
          outputs, fee, outputAmount, chain, pc, op, pre, ret, state>>

\* the call of a stand-alone function (buildWitnessScript, chunkContent, createPsbt)
pure == <<args, result>>

vars == <<inscriberVars, pure>>

config == <<postage, feeRate, taptreeVersion, callerOutputs>>

\* ------------------------------------------------------------ data values
Null == [txid |-> "null", n |-> 0, sats |-> 0]
Undefined == [txid |-> "undefined", n |-> 0, sats |-> 0]

\* !this.suitableUnspent
Falsy(u) == u.txid \in {"null", "undefined"}

NullPayment == [address |-> "null", redeem |-> "null"]

getDummyP2TRInput == [txid |-> "dummy", n |-> 0, sats |-> DummySats]

Utxo(i, v) == [txid |-> "tx", n |-> i, sats |-> v]

NoOptions == [skipStrictSatsCheck |-> FALSE, customAmount |-> 0]

ReadyOptions ==
  {NoOptions} \cup [skipStrictSatsCheck : {TRUE}, customAmount : CustomAmounts]

RECURSIVE SumValues(_)
SumValues(outs) ==
  IF outs = <<>> THEN 0 ELSE Head(outs).value + SumValues(Tail(outs))

ExtraOutputs ==
  {<<>>} \cup
  UNION {[1..k -> [address : {"extra"}, value : ExtraValues]] : k \in 1..MaxExtra}

\* ----------------------------------------------------- fee (FeeEstimator)
LeafVSize(leaf) ==
  CASE leaf = "inscription" -> 60
    [] leaf = "inscriptionOnly" -> 50
    [] leaf = "recovery" -> 10
    [] OTHER -> 0

VirtualSize(leaf, nOut) == BaseVSize + LeafVSize(leaf) + nOut * OutputVSize

calculateNetworkFee(rate, leaf, nOut) == rate * VirtualSize(leaf, nOut)

\* ------------------------------------------------- taproot tree selection
\* a tap tree: a leaf carries a witness script, a branch two subtrees
TapLeaf(script) == [output |-> script, kids |-> <<>>]

TapBranch(left, right) == [output |-> "", kids |-> <<left, right>>]

buildTaprootTree(version) ==
  IF version = "2"
  THEN TapBranch(TapBranch(TapLeaf("recovery"), TapLeaf("inscription")),
                 TapLeaf("inscriptionOnly"))
  ELSE TapBranch(TapLeaf("inscription"), TapLeaf("recovery"))

RECURSIVE TapLeaves(_)
TapLeaves(tree) ==
  IF tree.kids = <<>> THEN <<tree.output>>
  ELSE TapLeaves(tree.kids[1]) \o TapLeaves(tree.kids[2])

getReedemScript_m(version) == "inscription"

getReedemScript(version) ==
  IF version = "2" THEN "inscriptionOnly" ELSE "inscription"

getRecoveryRedeemScript == "recovery"

\* ------------------------------------------------------------- data source
\* (await datasource.getUnspents({ address })).spendableUTXOs[0]
FirstSpendable(utxos) == IF utxos = <<>> THEN Undefined ELSE utxos[1]

\* retrieveSelectedUTXOs(address, amount): the first UTXO of at least amount
RECURSIVE retrieveSelectedUTXOs(_, _)
retrieveSelectedUTXOs(utxos, amount) ==
  IF utxos = <<>> THEN <<>>
  ELSE IF Head(utxos).sats >= amount THEN <<Head(utxos)>>
  ELSE retrieveSelectedUTXOs(Tail(utxos), amount)

\* ------------------------------------------------------------------ build
\* the guard of build(): !this.suitableUnspent || !this.payment
NotReady_m(su, pay) == pay = NullPayment

NotReady(su, pay) == Falsy(su) \/ pay = NullPayment

buildInputs(su, pay) ==
  <<[type |-> "taproot", hash |-> su.txid, index |-> su.n, value |-> su.sats,
     leaf |-> pay.redeem]>>

buildRecoverAmount(rec, su, f, old) == IF rec THEN su.sats - f ELSE old

buildOutputs_m(rec, su, f, dest, post, outs) ==
  IF rec
  THEN <<[address |-> ChangeAddress, value |-> su.sats - f]>> \o outs
  ELSE <<[address |-> dest, value |-> post]>> \o outs

buildOutputs(rec, su, f, dest, post, outs) ==
  IF rec
  THEN <<[address |-> ChangeAddress, value |-> su.sats - f]>>
  ELSE <<[address |-> dest, value |-> post]>> \o outs

\* PSBTBuilder.prepare(): output amount and fee of the assembled transaction
prepareOutputAmount(outs) == SumValues(outs)

prepareFee(rate, pay, outs) == calculateNetworkFee(rate, pay.redeem, Len(outs))

\* ---------------------------------------------------------------- preview
\* preview({ activate: false }): this.outputs.shift()
deactivateOutputs_m(outs) == outs

deactivateOutputs(outs) == IF outs = <<>> THEN <<>> ELSE Tail(outs)

deactivateUnspent == Null

deactivateReady_m == TRUE

deactivateReady == FALSE

deactivatePreviewMode == FALSE

\* restrictUsageInPreviewMode()
restrictUsageInPreviewMode(pm) == pm

\* isBuilt(): !this.commitAddress || !this.fee
isBuiltThrows_m(addr, f) == addr = "null"

isBuiltThrows(addr, f) == addr = "null" \/ f = 0

\* ------------------------------------------------------------ fund lookup
\* the amount fetchAndSelectSuitableUnspent requires
requiredAmount_m(rec, opts, outAmt, f) ==
  IF rec THEN outAmt - f
  ELSE IF opts.skipStrictSatsCheck /\ opts.customAmount # 0 THEN opts.customAmount
  ELSE outAmt + f + 1

requiredAmount(rec, opts, outAmt, f) ==
  IF rec THEN outAmt - f
  ELSE IF opts.skipStrictSatsCheck /\ opts.customAmount # 0 THEN opts.customAmount
  ELSE outAmt + f

belowDust(amount) == amount < MINIMUM_AMOUNT_IN_SATS

\* outcome of fetchAndSelectSuitableUnspent(opts) in the current state;
\* lookupOk says whether the data source answers
fetchOutcome(opts, lookupOk) ==
  LET amount == requiredAmount(recovery, opts, outputAmount, fee)
      utxos == retrieveSelectedUTXOs(chain, amount)
  IN IF restrictUsageInPreviewMode(previewMode)
       THEN [outcome |-> "PreviewModeRestricted", utxo |-> Null]
     ELSE IF isBuiltThrows(commitAddress, fee)
       THEN [outcome |-> "InvalidTx", utxo |-> Null]
     ELSE IF belowDust(amount)
       THEN [outcome |-> "BelowDustLimit", utxo |-> Null]
     ELSE IF ~lookupOk
       THEN [outcome |-> "DatasourceError", utxo |-> Null]
     ELSE IF Len(utxos) = 0
       THEN [outcome |-> "NoSelectedUtxos", utxo |-> Null]
     ELSE [outcome |-> "ok", utxo |-> utxos[1]]

\* what isReady does with a failure of fetchAndSelectSuitableUnspent
isReadyCatch_m(outcome) == [call |-> "isReady", outcome |-> outcome]

isReadyCatch(outcome) == [call |-> "isReady", outcome |-> "ok", value |-> FALSE]

\* isReady calls fetchAndSelectSuitableUnspent only if (!this.ready)
isReadyFetches(rdy) == ~rdy

\* recover(): recoverAmount: this.recoverAmount - this.fee
recoverReported(recAmt, f) == recAmt - f

\* generateCommit(): revealFee: this.fee + this.outputAmount
revealFee(f, outAmt) == f + outAmt

\* ------------------------------------------------------------------- Init
NoCall == [fn |-> "none"]

Snapshot ==
  [outputs |-> outputs, ready |-> ready, suitableUnspent |-> suitableUnspent,
   state |-> state]

Init ==
  /\ postage \in Postages
  /\ feeRate \in FeeRates
  /\ taptreeVersion \in TaptreeVersions
  /\ callerOutputs \in ExtraOutputs
  /\ ready = FALSE
  /\ commitAddress = "null"
  /\ payment = NullPayment
  /\ suitableUnspent = Null
  /\ recovery = FALSE
  /\ recoverAmount = 0
  /\ previewMode = FALSE
  /\ inputs = <<>>
  /\ outputs = callerOutputs
  /\ fee = 0
  /\ outputAmount = 0
  /\ chain = <<>>
  /\ pc = "idle"
  /\ op = "none"
  /\ pre = [outputs |-> callerOutputs, ready |-> FALSE, suitableUnspent |-> Null,
            state |-> "EMPTY"]
  /\ ret = [call |-> "none", outcome |-> "none"]
  /\ state = "EMPTY"
  /\ args = NoCall
  /\ result = NoCall

\* ------------------------------------------------- generateCommit / recover
\* the call in flight rejects: nothing after the throw runs
Throw(call, outcome) ==
  /\ pc' = "idle"
  /\ op' = "none"
  /\ ret' = [call |-> call, outcome |-> outcome]
  /\ state' = "FAILED"

\* build() as called by preview(), up to its await this.prepare()
DryRunBuild(call, rec, su, pay) ==
  IF NotReady(su, pay)
  THEN /\ Throw(call, "NotReady")
       /\ UNCHANGED <<inputs, outputs, recoverAmount>>
  ELSE /\ inputs' = buildInputs(su, pay)
       /\ recoverAmount' = buildRecoverAmount(rec, su, fee, recoverAmount)
       /\ outputs' = buildOutputs(rec, su, fee, DestinationAddress, postage, outputs)
       /\ pc' = "prepare"
       /\ op' = call
       /\ UNCHANGED <<ret, state>>

\* generateCommit() up to the first await of its dry run
GenerateCommit ==
  /\ pc = "idle"
  /\ Len(outputs) < MaxOutputs
  /\ LET pay == [address |-> CommitAddr, redeem |-> getReedemScript(taptreeVersion)]
     IN /\ payment' = pay
        /\ previewMode' = TRUE
        /\ pre' = Snapshot
        /\ UNCHANGED <<pure, config, commitAddress, recovery, fee, outputAmount, chain>>
        /\ IF recovery
           THEN /\ pc' = "lookup"
                /\ op' = "generateCommit"
                /\ UNCHANGED <<ready, suitableUnspent, inputs, outputs,
                               recoverAmount, ret, state>>
           ELSE /\ suitableUnspent' = getDummyP2TRInput
                /\ ready' = TRUE
                /\ DryRunBuild("generateCommit", recovery, getDummyP2TRInput, pay)

\* recover() up to the UTXO lookup of its dry run
Recover ==
  /\ pc = "idle"
  /\ recovery' = TRUE
  /\ payment' = [address |-> CommitAddr, redeem |-> getRecoveryRedeemScript]
  /\ commitAddress' = CommitAddr
  /\ previewMode' = TRUE
  /\ pre' = Snapshot
  /\ pc' = "lookup"
  /\ op' = "recover"
  /\ UNCHANGED <<pure, config, ready, suitableUnspent, recoverAmount, inputs, outputs,
                 fee, outputAmount, chain, ret, state>>

\* preview(): the lookup answers (or fails); then build() up to prepare()
PreviewLookup(lookupOk) ==
  /\ pc = "lookup"
  /\ UNCHANGED <<pure, config, commitAddress, payment, recovery, previewMode, fee,
                 outputAmount, chain, pre>>
  /\ IF ~lookupOk
     THEN /\ Throw(op, "DatasourceError")
          /\ UNCHANGED <<ready, suitableUnspent, inputs, outputs, recoverAmount>>
     ELSE LET su == FirstSpendable(chain)
          IN /\ suitableUnspent' = su
             /\ IF recovery /\ Falsy(su)
                THEN /\ Throw(op, "NoUTXOFound")
                     /\ UNCHANGED <<ready, inputs, outputs, recoverAmount>>
                ELSE /\ ready' = TRUE
                     /\ DryRunBuild(op, recovery, su, payment)

\* the prepare() awaited by the dry-run build() settles
PreviewPrepare(prepareOk) ==
  /\ pc = "prepare"
  /\ UNCHANGED <<pure, config, ready, commitAddress, payment, suitableUnspent, recovery,
                 recoverAmount, previewMode, inputs, outputs, chain, pre>>
  /\ IF prepareOk
     THEN /\ outputAmount' = prepareOutputAmount(outputs)
          /\ fee' = prepareFee(feeRate, payment, outputs)
          /\ pc' = "finish"
          /\ UNCHANGED <<op, ret, state>>
     ELSE /\ Throw(op, "PrepareError")
          /\ UNCHANGED <<fee, outputAmount>>

\* calculateNetworkFee(), preview({ activate: false }) and the return
PreviewFinish ==
  /\ pc = "finish"
  /\ fee' = prepareFee(feeRate, payment, outputs)
  /\ suitableUnspent' = deactivateUnspent
  /\ ready' = deactivateReady
  /\ outputs' = deactivateOutputs(outputs)
  /\ previewMode' = deactivatePreviewMode
  /\ commitAddress' = payment.address
  /\ ret' = IF op = "recover"
            THEN [call |-> "recover", outcome |-> "ok",
                  recoverAddress |-> ChangeAddress,
                  recoverAmount |-> recoverReported(recoverAmount, fee'),
                  recoverFee |-> fee']
            ELSE [call |-> "generateCommit", outcome |-> "ok",
                  address |-> payment.address,
                  revealFee |-> revealFee(fee', outputAmount)]
  /\ state' = "COMMITTED"
  /\ pc' = "idle"
  /\ op' = "none"
  /\ UNCHANGED <<pure, config, payment, recovery, recoverAmount, inputs, outputAmount,
                 chain, pre>>

\* ------------------------------------------- isReady / fetchAndSelect / build
\* lifecycle once a funding UTXO is recorded: a built transaction stays built,
\* and a call that failed half-way is only made good by a new commit
Funded(st) == IF st \in {"BUILT", "FAILED"} THEN st ELSE "READY"

IsReady(opts, lookupOk) ==
  /\ UNCHANGED <<pure, config, commitAddress, payment, recovery, recoverAmount,
                 previewMode, inputs, outputs, fee, outputAmount, chain, pc, op, pre>>
  /\ IF isBuiltThrows(commitAddress, fee)
     THEN /\ ret' = [call |-> "isReady", outcome |-> "InvalidTx"]
          /\ UNCHANGED <<ready, suitableUnspent, state>>
     ELSE IF isReadyFetches(ready)
     THEN LET r == fetchOutcome(opts, lookupOk)
          IN IF r.outcome = "ok"
             THEN /\ suitableUnspent' = r.utxo
                  /\ ready' = TRUE
                  /\ ret' = [call |-> "isReady", outcome |-> "ok", value |-> TRUE]
                  /\ state' = Funded(state)
             ELSE /\ ret' = isReadyCatch(r.outcome)
                  /\ UNCHANGED <<ready, suitableUnspent, state>>
     ELSE /\ ret' = [call |-> "isReady", outcome |-> "ok", value |-> ready]
          /\ UNCHANGED <<ready, suitableUnspent, state>>

FetchAndSelectSuitableUnspent(opts, lookupOk) ==
  /\ UNCHANGED <<pure, config, commitAddress, payment, recovery, recoverAmount,
                 previewMode, inputs, outputs, fee, outputAmount, chain, pc, op, pre>>
  /\ LET r == fetchOutcome(opts, lookupOk)
     IN IF r.outcome = "ok"
        THEN /\ suitableUnspent' = r.utxo
             /\ ready' = TRUE
             /\ ret' = [call |-> "fetchAndSelectSuitableUnspent", outcome |-> "ok",
                        utxo |-> r.utxo]
             /\ state' = Funded(state)
        ELSE /\ ret' = [call |-> "fetchAndSelectSuitableUnspent",
                        outcome |-> r.outcome]
             /\ UNCHANGED <<ready, suitableUnspent, state>>

\* build() called by the user, with the prepare() it awaits
Build(prepareOk) ==
  /\ pc = "idle"
  /\ Len(outputs) < MaxOutputs
  /\ UNCHANGED <<pure, config, ready, commitAddress, payment, suitableUnspent, recovery,
                 previewMode, chain, pc, op, pre>>
  /\ IF NotReady(suitableUnspent, payment)
     THEN /\ ret' = [call |-> "build", outcome |-> "NotReady"]
          /\ UNCHANGED <<inputs, outputs, recoverAmount, fee, outputAmount, state>>
     ELSE /\ inputs' = buildInputs(suitableUnspent, payment)
          /\ recoverAmount' = buildRecoverAmount(recovery, suitableUnspent, fee,
                                                 recoverAmount)
          /\ outputs' = buildOutputs(recovery, suitableUnspent, fee,
                                     DestinationAddress, postage, outputs)
          /\ IF prepareOk
             THEN /\ outputAmount' = prepareOutputAmount(outputs')
                  /\ fee' = prepareFee(feeRate, payment, outputs')
                  /\ ret' = [call |-> "build", outcome |-> "ok"]
                  /\ state' = IF state \in {"READY", "BUILT"} THEN "BUILT" ELSE state
             ELSE /\ ret' = [call |-> "build", outcome |-> "PrepareError"]
                  /\ state' = "FAILED"
                  /\ UNCHANGED <<fee, outputAmount>>

\* ------------------------------------------------------------- environment
\* somebody pays v sats to the commit address
Fund(v) ==
  /\ Len(chain) < MaxUtxos
  /\ chain' = Append(chain, Utxo(Len(chain) + 1, v))
  /\ UNCHANGED <<pure, config, ready, commitAddress, payment, suitableUnspent, recovery,
                 recoverAmount, previewMode, inputs, outputs, fee, outputAmount,
                 pc, op, pre, ret, state>>

\* the payer may send exactly the revealFee generateCommit() has just quoted,
\* as the first payment to the commit address
QuotedValues ==
  IF pc = "idle" /\ ret.call = "generateCommit" /\ ret.outcome = "ok" /\ chain = <<>>
  THEN {ret.revealFee}
  ELSE {}

Next ==
  \/ GenerateCommit
  \/ Recover
  \/ \E lookupOk \in BOOLEAN : PreviewLookup(lookupOk)
  \/ \E prepareOk \in BOOLEAN : PreviewPrepare(prepareOk)
  \/ PreviewFinish
  \/ \E opts \in ReadyOptions, lookupOk \in BOOLEAN : IsReady(opts, lookupOk)
  \/ \E opts \in ReadyOptions, lookupOk \in BOOLEAN :
       FetchAndSelectSuitableUnspent(opts, lookupOk)
  \/ \E prepareOk \in BOOLEAN : Build(prepareOk)
  \/ \E v \in FundValues \cup QuotedValues : Fund(v)

Spec == Init /\ [][Next]_vars

TypeOK ==
  /\ pc \in {"idle", "lookup", "prepare", "finish"}
  /\ op \in {"none", "generateCommit", "recover"}
  /\ state \in {"EMPTY", "COMMITTED", "READY", "BUILT", "FAILED"}
  /\ ready \in BOOLEAN /\ recovery \in BOOLEAN /\ previewMode \in BOOLEAN
  /\ (pc = "idle") = (op = "none")

\* ================================================================== claims
\* the call that just terminated, with no other call in flight
Returned(call, outcome) == pc = "idle" /\ ret.call = call /\ ret.outcome = outcome

\* the amount a funding lookup with these options requires now
AmountNow(opts) == requiredAmount(recovery, opts, outputAmount, fee)

Covered(opts) == retrieveSelectedUTXOs(chain, AmountNow(opts)) # <<>>

C2_IsReadyPolls ==
  [][\A opts \in ReadyOptions, lookupOk \in BOOLEAN :
       (/\ IsReady(opts, lookupOk)
        /\ pc = "idle"
        /\ state = "COMMITTED"
        /\ AmountNow(opts) >= MINIMUM_AMOUNT_IN_SATS)
         => IF lookupOk /\ Covered(opts)
            THEN /\ ret' = [call |-> "isReady", outcome |-> "ok", value |-> TRUE]
                 /\ ready'
                 /\ suitableUnspent'.txid = "tx"
                 /\ suitableUnspent'.sats >= AmountNow(opts)
            ELSE /\ ret' = [call |-> "isReady", outcome |-> "ok", value |-> FALSE]
                 /\ ~ready'
                 /\ Falsy(suitableUnspent')]_vars

C2_Witness ==
  /\ Returned("isReady", "ok")
  /\ ret.value = FALSE
  /\ state = "COMMITTED"
  /\ ~recovery
  /\ chain # <<>>
  /\ outputAmount + fee >= MINIMUM_AMOUNT_IN_SATS
  /\ ~Covered(NoOptions)

\* C3: in state COMMITTED, whenever the required funding amount is below the
\* minimum spendable amount, isReady() and fetchAndSelectSuitableUnspent()
\* both fail with BelowDustLimit.
C3_DustEnforced ==
  [][\A opts \in ReadyOptions, lookupOk \in BOOLEAN :
       (/\ pc = "idle"
        /\ state = "COMMITTED"
        /\ AmountNow(opts) < MINIMUM_AMOUNT_IN_SATS
        /\ IsReady(opts, lookupOk) \/ FetchAndSelectSuitableUnspent(opts, lookupOk))
         => ret'.outcome = "BelowDustLimit"]_vars

\* C4: while a dry run is active (previewMode is true), isReady() never
\* returns true: it and fetchAndSelectSuitableUnspent() must fail with
\* PreviewModeRestricted, so no caller is told the placeholder is funding.
C4_PreviewRestricted ==
  [][\A opts \in ReadyOptions, lookupOk \in BOOLEAN :
       (previewMode /\ IsReady(opts, lookupOk))
         => ~(ret'.outcome = "ok" /\ ret'.value = TRUE)]_vars

\* C5: after generateCommit() returns, no funding UTXO is recorded, ready and
\* previewMode are false, and the output list is what it was before the call.
C5_CommitDiscardsDryRun ==
  Returned("generateCommit", "ok")
    => /\ Falsy(suitableUnspent)
       /\ ~ready
       /\ ~previewMode
       /\ outputs = pre.outputs

\* C6 (as claimed): recover() called in state READY or BUILT returns and leaves
\* ready, the recorded funding UTXO and the output list as they were.
C6_RecoverReadPath ==
  (Returned("recover", "ok") /\ pre.state \in {"READY", "BUILT"})
    => /\ ready = pre.ready
       /\ suitableUnspent = pre.suitableUnspent
       /\ outputs = pre.outputs

\* C6 (amended): recover() called in state READY or BUILT returns its quote
\* and discards the dry run like generateCommit(): ready is false, no funding
\* UTXO is recorded, previewMode is false, the output list is empty, and the
\* instance is in recovery mode.
C6_RecoverResets ==
  (Returned("recover", "ok") /\ pre.state \in {"READY", "BUILT"})
    => /\ ret.recoverAddress = ChangeAddress
       /\ ret.recoverFee = fee
       /\ ~ready
       /\ suitableUnspent = Null
       /\ ~previewMode
       /\ outputs = <<>>
       /\ recovery

C6_Witness ==
  /\ Returned("recover", "ok")
  /\ pre.state \in {"READY", "BUILT"}
  /\ pre.ready
  /\ pre.suitableUnspent.txid = "tx"
  /\ pre.outputs # <<>>

\* C7: recover() reports recoverAmount = V - F, where V is the value of the
\* UTXO at the commit address and F the recoverFee it returns, whatever ran
\* on the instance before.
C7_RecoverAmount ==
  Returned("recover", "ok")
    => ret.recoverAmount = FirstSpendable(chain).sats - ret.recoverFee

\* C8: in recovery mode a successful build() leaves exactly one output, paying
\* the funding UTXO's value minus the fee held at the call to the change
\* address, whatever the output list held before; in state READY or BUILT
\* that fee is also the fee of the transaction built.
C8_RecoveryBuildOneOutput ==
  [][\A prepareOk \in BOOLEAN :
       (Build(prepareOk) /\ recovery /\ ret'.outcome = "ok")
         => /\ outputs' = <<[address |-> ChangeAddress,
                             value |-> suitableUnspent.sats - fee]>>
            /\ state \in {"READY", "BUILT"} => fee' = fee]_vars

C8_Witness ==
  /\ Returned("build", "ok")
  /\ recovery
  /\ state = "BUILT"
  /\ callerOutputs # <<>>
  /\ Len(outputs) = 1

\* C9: in normal mode, after a successful build() the output list is exactly
\* one destination output carrying the postage followed by the caller's
\* extra outputs.
C9_PostageOnce ==
  (Returned("build", "ok") /\ ~recovery)
    => outputs = <<[address |-> DestinationAddress, value |-> postage]>>
                   \o callerOutputs

\* C10: in normal mode the fee quoted by generateCommit()'s dry run against
\* the placeholder input equals the fee of the transaction build() assembles
\* once isReady() has recorded a real funding UTXO.
C10_FeeQuoteStable ==
  [][\A prepareOk \in BOOLEAN :
       (Build(prepareOk) /\ ~recovery /\ state = "READY" /\ ret'.outcome = "ok")
         => /\ fee' = fee
            /\ fee' = calculateNetworkFee(feeRate, getReedemScript(taptreeVersion),
                                          Len(outputs'))
            /\ inputs'[1].hash = "tx"]_vars

C10_Witness ==
  /\ Returned("build", "ok")
  /\ ~recovery
  /\ state = "BUILT"
  /\ inputs[1].hash = "tx"
  /\ callerOutputs # <<>>
  /\ fee = calculateNetworkFee(feeRate, getReedemScript(taptreeVersion), 2)

\* the commit address holds a UTXO of exactly the quoted revealFee
FundedByQuote ==
  /\ pc = "idle"
  /\ state = "COMMITTED"
  /\ ~recovery
  /\ ret.call = "generateCommit"
  /\ ret.outcome = "ok"
  /\ ret.revealFee >= MINIMUM_AMOUNT_IN_SATS
  /\ \E i \in 1..Len(chain) : chain[i].sats = ret.revealFee

AllVersions == {"1", "2", "undefined", "3"}

Range(seq) == {seq[i] : i \in 1..Len(seq)}

\* C12: version "2" gives the three leaves [[recovery, inscription],
\* inscriptionOnly] and the reveal spends inscriptionOnly; every other version
\* gives the two leaves [inscription, recovery] and the reveal spends
\* inscription; recover() spends the recovery leaf; the leaf spent (the
\* payment's redeem script and the leaf of the input build() assembles) is
\* always a leaf of the tree.
C12_TreeShapeAndLeaf ==
  /\ \A v \in AllVersions :
       LET tree == buildTaprootTree(v)
       IN /\ v = "2" =>
               /\ TapLeaves(tree) = <<"recovery", "inscription", "inscriptionOnly">>
               /\ TapLeaves(tree.kids[1]) = <<"recovery", "inscription">>
               /\ tree.kids[2] = TapLeaf("inscriptionOnly")
               /\ getReedemScript(v) = "inscriptionOnly"
          /\ v # "2" =>
               /\ TapLeaves(tree) = <<"inscription", "recovery">>
               /\ tree.kids[1] = TapLeaf("inscription")
               /\ getReedemScript(v) = "inscription"
          /\ getReedemScript(v) \in Range(TapLeaves(tree))
          /\ getRecoveryRedeemScript \in Range(TapLeaves(tree))
  /\ payment # NullPayment =>
       payment.redeem \in Range(TapLeaves(buildTaprootTree(taptreeVersion)))
  /\ Returned("generateCommit", "ok") =>
       payment.redeem = IF taptreeVersion = "2" THEN "inscriptionOnly"
                        ELSE "inscription"
  /\ Returned("recover", "ok") => payment.redeem = "recovery"
  /\ Returned("build", "ok") =>
       /\ Len(inputs) = 1
       /\ inputs[1].leaf = payment.redeem
       /\ inputs[1].leaf \in Range(TapLeaves(buildTaprootTree(taptreeVersion)))

C12_Witness ==
  /\ Returned("build", "ok")
  /\ state = "BUILT"
  /\ ~recovery
  /\ taptreeVersion = "2"
  /\ inputs[1].leaf = "inscriptionOnly"
  /\ inputs[1].hash = "tx"


\* ================================================ witness script (witness.ts)
\* ---------------------------------------------------------------- bounds
MaxChunks == 2
MaxBatch == 2

\* ------------------------------------------------------ program constants
MAXIMUM_SCRIPT_ELEMENT_SIZE == 520

MaxContentLen == MaxChunks * MAXIMUM_SCRIPT_ELEMENT_SIZE + 1

\* a call's frame for the stand-alone functions: the Inscriber is untouched
InscriberIdle ==
  /\ postage = CHOOSE p \in Postages : TRUE
  /\ feeRate = CHOOSE r \in FeeRates : TRUE
  /\ taptreeVersion = "1"
  /\ callerOutputs = <<>>
  /\ ready = FALSE
  /\ commitAddress = "null"
  /\ payment = NullPayment
  /\ suitableUnspent = Null
  /\ recovery = FALSE
  /\ recoverAmount = 0
  /\ previewMode = FALSE
  /\ inputs = <<>>
  /\ outputs = <<>>
  /\ fee = 0
  /\ outputAmount = 0
  /\ chain = <<>>
  /\ pc = "idle"
  /\ op = "none"
  /\ pre = [outputs |-> <<>>, ready |-> FALSE, suitableUnspent |-> Null,
            state |-> "EMPTY"]
  /\ ret = [call |-> "none", outcome |-> "none"]
  /\ state = "EMPTY"

\* ------------------------------------------------------- JavaScript values
\* a string is its sequence of code points, a Buffer its sequence of bytes,
\* an object is represented by the text JSON.stringify gives for it
Str(chars) == [kind |-> "string", data |-> chars]
Buf(bytes) == [kind |-> "buffer", data |-> bytes]
Arr(items) == [kind |-> "array", data |-> items]
Obj(json) == [kind |-> "object", data |-> json]
Undef == [kind |-> "undefined", data |-> <<>>]
NullValue == [kind |-> "null", data |-> <<>>]
FalseValue == [kind |-> "boolean", data |-> <<>>]

\* !v
JsFalsy(v) ==
  \/ v.kind \in {"undefined", "null"}
  \/ v.kind = "string" /\ Len(v.data) = 0
  \/ v = FalseValue

\* typeof v === "object"
TypeofObject(v) == v.kind \in {"object", "null", "array", "buffer"}

JSONstringify(v) == IF v.kind = "null" THEN <<110, 117, 108, 108>> ELSE v.data

\* "text" as code points, and String.prototype.includes
TextChars == <<116, 101, 120, 116>>

Includes(chars, sub) ==
  \E i \in 1..(Len(chars) - Len(sub) + 1) : SubSeq(chars, i, i + Len(sub) - 1) = sub

\* UTF-8 encoding of one code point of the basic plane
Utf8Char(c) ==
  IF c < 128 THEN <<c>>
  ELSE IF c < 2048 THEN <<192 + (c \div 64), 128 + (c % 64)>>
  ELSE <<224 + (c \div 4096), 128 + ((c \div 64) % 64), 128 + (c % 64)>>

RECURSIVE Utf8Encode(_)
Utf8Encode(chars) ==
  IF Len(chars) = 0 THEN <<>>
  ELSE IF Len(chars) = 1 THEN Utf8Char(chars[1])
  ELSE LET h == Len(chars) \div 2
       IN Utf8Encode(SubSeq(chars, 1, h)) \o Utf8Encode(SubSeq(chars, h + 1, Len(chars)))

\* the 6-bit value of a base64 digit; 64 for a character outside the alphabet
Base64Digit(c) ==
  IF c >= 65 /\ c <= 90 THEN c - 65
  ELSE IF c >= 97 /\ c <= 122 THEN c - 71
  ELSE IF c >= 48 /\ c <= 57 THEN c + 4
  ELSE IF c \in {43, 45} THEN 62
  ELSE IF c \in {47, 95} THEN 63
  ELSE 64

IsBase64Digit(c) == Base64Digit(c) < 64

Base64Decode(chars) ==
  LET v == SelectSeq(chars, IsBase64Digit)
      n == (Len(v) * 6) \div 8
      at(k) == Base64Digit(v[k])
      byte(k) ==
        LET q == 4 * ((k - 1) \div 3)
            pos == (k - 1) % 3
        IN IF pos = 0 THEN at(q + 1) * 4 + (at(q + 2) \div 16)
           ELSE IF pos = 1 THEN (at(q + 2) % 16) * 16 + (at(q + 3) \div 4)
           ELSE (at(q + 3) % 4) * 64 + at(q + 4)
  IN [k \in 1..n |-> byte(k)]

\* Buffer.from(v, encoding): a Buffer is copied whatever the encoding
BufferFrom(v, encoding) ==
  IF v.kind = "buffer" THEN v.data
  ELSE IF encoding = "base64" THEN Base64Decode(v.data)
  ELSE Utf8Encode(v.data)

\* ------------------------------------------------------------ chunkContent
\* Buffer.isBuffer(Buffer): the argument is the Buffer constructor itself
IsBufferOfBufferClass == FALSE

contentBuffer(str, encoding) ==
  IF IsBufferOfBufferClass THEN str.data ELSE BufferFrom(str, encoding)

Min(a, b) == IF a < b THEN a ELSE b

subarray_m(buf, start, end) == SubSeq(buf, start + 1, Min(end, Len(buf)) - 1)

\* buf.subarray(start, end), both zero-based, end exclusive and clamped
subarray(buf, start, end) == SubSeq(buf, start + 1, Min(end, Len(buf)))

RECURSIVE chunkLoop(_, _, _)
chunkLoop(buf, chunkedBytes, chunks) ==
  IF chunkedBytes < Len(buf)
  THEN LET chunk == subarray(buf, chunkedBytes, chunkedBytes + MAXIMUM_SCRIPT_ELEMENT_SIZE)
       IN IF Len(chunk) = 0
          THEN [diverges |-> TRUE, chunks |-> chunks]
          ELSE chunkLoop(buf, chunkedBytes + Len(chunk), Append(chunks, chunk))
  ELSE [diverges |-> FALSE, chunks |-> chunks]

chunkContent(str, encoding) == chunkLoop(contentBuffer(str, encoding), 0, <<>>).chunks

\* ------------------------------------------------------------------ opPush
OP(name) == [kind |-> "op", op |-> name, data |-> <<>>]
Num(n) == [kind |-> "number", op |-> "", data |-> <<n>>]
PushData(bytes) == [kind |-> "data", op |-> "", data |-> bytes]

opPushBuff(data) == BufferFrom(data, "utf8")

opPushThrows(data) == Len(opPushBuff(data)) > MAXIMUM_SCRIPT_ELEMENT_SIZE

opPush(data) == PushData(opPushBuff(data))

\* ------------------------------------------------------- buildWitnessScript
DOB == Str(<<68, 79, 66>>)

JsonContentType ==
  Str(<<97, 112, 112, 108, 105, 99, 97, 116, 105, 111, 110, 47, 106, 115, 111, 110,
        59, 99, 104, 97, 114, 115, 101, 116, 61, 117, 116, 102, 45, 56>>)

\* Buffer.from(xkey, "hex"): the key is kept as the bytes its hex text denotes
xkeyBuffer(xkey) == PushData(xkey.data)

pushChunks(chunks) == [i \in 1..Len(chunks) |-> opPush(Buf(chunks[i]))]

chunksThrow(chunks) == \E i \in 1..Len(chunks) : opPushThrows(Buf(chunks[i]))

contentEncoding(mediaType) ==
  IF ~Includes(mediaType.data, TextChars) THEN "base64" ELSE "utf8"

metaThrows(meta) ==
  /\ TypeofObject(meta)
  /\ \/ opPushThrows(DOB)
     \/ opPushThrows(JsonContentType)
     \/ chunksThrow(chunkContent(Str(JSONstringify(meta)), "utf8"))

metaStackElements(meta) ==
  IF TypeofObject(meta)
  THEN <<OP("OP_FALSE"), OP("OP_IF"), opPush(DOB), Num(1), Num(1),
         opPush(JsonContentType), OP("OP_0")>>
       \o pushChunks(chunkContent(Str(JSONstringify(meta)), "utf8"))
       \o <<OP("OP_ENDIF")>>
  ELSE <<>>

header(xkey) == <<xkeyBuffer(xkey), OP("OP_CHECKSIG")>>

contentBlock(mediaType, content) ==
  <<OP("OP_FALSE"), OP("OP_IF"), opPush(DOB), Num(1), Num(1), opPush(mediaType),
    OP("OP_0")>>
  \o pushChunks(chunkContent(content, contentEncoding(mediaType)))
  \o <<OP("OP_ENDIF")>>

contentThrows(mediaType, content) ==
  \/ chunksThrow(chunkContent(content, contentEncoding(mediaType)))
  \/ opPushThrows(DOB)
  \/ opPushThrows(mediaType)

RECURSIVE flat(_)
flat(blocks) == IF blocks = <<>> THEN <<>> ELSE Head(blocks) \o flat(Tail(blocks))

blockType_m(mediaType, index) == mediaType.data[1]

\* options.mediaType[index]
blockType(mediaType, index) == mediaType.data[index]

multiContents(options) ==
  [index \in 1..Len(options.mediaContent.data) |->
     contentBlock(blockType(options.mediaType, index), options.mediaContent.data[index])]

multiThrows(options) ==
  \E index \in 1..Len(options.mediaContent.data) :
    contentThrows(options.mediaType.data[index], options.mediaContent.data[index])

baseStackElements(options) ==
  header(options.xkey)
  \o SubSeq(contentBlock(options.mediaType, options.mediaContent), 1,
            Len(contentBlock(options.mediaType, options.mediaContent)) - 1)

Failed(error) == [fn |-> "buildWitnessScript", outcome |-> error, script |-> <<>>]

Compiled(script) == [fn |-> "buildWitnessScript", outcome |-> "ok", script |-> script]

buildWitnessScript(options) ==
  IF JsFalsy(options.mediaType) \/ JsFalsy(options.mediaContent) \/ JsFalsy(options.xkey)
  THEN Failed("MissingField")
  ELSE IF options.recover
  THEN Compiled(header(options.xkey))
  ELSE IF metaThrows(options.meta)
  THEN Failed("OversizedElement")
  ELSE IF options.mediaContent.kind = "array"
  THEN IF multiThrows(options)
       THEN Failed("OversizedElement")
       ELSE Compiled(header(options.xkey) \o flat(multiContents(options)))
  ELSE IF contentThrows(options.mediaType, options.mediaContent)
       THEN Failed("OversizedElement")
       ELSE Compiled(baseStackElements(options) \o <<OP("OP_ENDIF")>>
                     \o metaStackElements(options.meta))

\* ------------------------------------------------------------------ inputs
ByteAt(i) == (7 * i + 3) % 256
Bytes(n) == [i \in 1..n |-> ByteAt(i)]
Letters(n) == [i \in 1..n |-> 97 + (i % 26)]

ImagePng == Str(<<105, 109, 97, 103, 101, 47, 112, 110, 103>>)
TextPlain == Str(<<116, 101, 120, 116, 47, 112, 108, 97, 105, 110>>)
LongMediaType == Str(Letters(MAXIMUM_SCRIPT_ELEMENT_SIZE + 1))

\* "aGVsbG8=" is base64 for "hello"; the second text has code points above 127
HelloBase64 == Str(<<97, 71, 86, 115, 98, 71, 56, 61>>)
AccentedText == Str(<<99, 97, 102, 233, 32, 8364>>)
LongText == Str(Letters(MAXIMUM_SCRIPT_ELEMENT_SIZE + 1))

XKey == Str(<<2, 171, 205>>)

SmallMeta == Obj(<<123, 34, 97, 34, 58, 49, 125>>)
LargeMeta == Obj(<<123, 34>> \o Letters(MAXIMUM_SCRIPT_ELEMENT_SIZE) \o <<34, 58, 49, 125>>)

ChunkCalls ==
  {[fn |-> "chunkContent", str |-> Buf(Bytes(n)), encoding |-> "utf8"] :
     n \in 0..MaxContentLen}
  \cup {[fn |-> "chunkContent", str |-> s, encoding |-> e] :
          s \in {HelloBase64, AccentedText, LongText, Str(<<>>)},
          e \in {"utf8", "base64"}}

SingleContents ==
  {Undef, Str(<<>>), Buf(<<>>), Buf(Bytes(1)), Buf(Bytes(MAXIMUM_SCRIPT_ELEMENT_SIZE)),
   Buf(Bytes(MAXIMUM_SCRIPT_ELEMENT_SIZE + 1)), HelloBase64, AccentedText}

SingleCalls ==
  {[fn |-> "buildWitnessScript",
    options |-> [recover |-> r, xkey |-> k, mediaType |-> t, mediaContent |-> c,
                 meta |-> m]] :
     r \in BOOLEAN, k \in {XKey, Str(<<>>)},
     t \in {ImagePng, TextPlain, LongMediaType, Undef},
     c \in SingleContents,
     m \in {Undef, FalseValue, NullValue, SmallMeta, LargeMeta}}

BatchItems ==
  {[mediaType |-> ImagePng, content |-> Buf(Bytes(MAXIMUM_SCRIPT_ELEMENT_SIZE + 1))],
   [mediaType |-> TextPlain, content |-> AccentedText],
   [mediaType |-> ImagePng, content |-> HelloBase64],
   [mediaType |-> LongMediaType, content |-> Buf(Bytes(1))]}

Batches == UNION {[1..n -> BatchItems] : n \in 0..MaxBatch}

BatchCalls ==
  {[fn |-> "buildWitnessScript",
    options |-> [recover |-> r, xkey |-> XKey,
                 mediaType |-> Arr([i \in 1..Len(b) |-> b[i].mediaType]),
                 mediaContent |-> Arr([i \in 1..Len(b) |-> b[i].content]),
                 meta |-> m]] :
     r \in BOOLEAN, b \in Batches, m \in {Undef, SmallMeta}}

\* ----------------------------------------------------------------- actions
WitnessInit ==
  /\ InscriberIdle
  /\ args \in ChunkCalls \cup SingleCalls \cup BatchCalls
  /\ result = NoCall

ChunkContent ==
  /\ args.fn = "chunkContent"
  /\ result = NoCall
  /\ result' = [fn |-> "chunkContent", chunks |-> chunkContent(args.str, args.encoding)]
  /\ UNCHANGED <<inscriberVars, args>>

BuildWitnessScript ==
  /\ args.fn = "buildWitnessScript"
  /\ result = NoCall
  /\ result' = buildWitnessScript(args.options)
  /\ UNCHANGED <<inscriberVars, args>>

WitnessNext == ChunkContent \/ BuildWitnessScript

WitnessSpec == WitnessInit /\ [][WitnessNext]_vars

\* ------------------------------------------------------------------ claims
Ceil(a, b) == (a + b - 1) \div b

\* C13: for content of L bytes, the chunks of chunkContent concatenated in order
\* are the content's bytes, there are ceil(L/520) of them (none for L = 0), each
\* is at most 520 bytes long and only the last may be shorter than 520.
C13_ChunkRoundTrip ==
  result.fn = "chunkContent" =>
    LET bytes == BufferFrom(args.str, args.encoding)
        L == Len(bytes)
        chunks == result.chunks
    IN /\ flat(chunks) = bytes
       /\ Len(chunks) = IF L = 0 THEN 0 ELSE Ceil(L, MAXIMUM_SCRIPT_ELEMENT_SIZE)
       /\ \A i \in 1..Len(chunks) :
            /\ Len(chunks[i]) <= MAXIMUM_SCRIPT_ELEMENT_SIZE
            /\ i < Len(chunks) => Len(chunks[i]) = MAXIMUM_SCRIPT_ELEMENT_SIZE

C13_Witness ==
  /\ result.fn = "chunkContent"
  /\ Len(args.str.data) = 2 * MAXIMUM_SCRIPT_ELEMENT_SIZE + 1
  /\ Len(result.chunks) = 3
  /\ Len(result.chunks[3]) = 1
  /\ result.chunks[2] # result.chunks[1]

\* the bytes of an item and its k-th slice of at most 520 bytes
ItemBytes(mediaType, content) ==
  IF content.kind = "buffer" THEN content.data
  ELSE IF Includes(mediaType.data, TextChars) THEN Utf8Encode(content.data)
  ELSE Base64Decode(content.data)

Slice(bytes, k) ==
  SubSeq(bytes, (k - 1) * MAXIMUM_SCRIPT_ELEMENT_SIZE + 1,
         Min(k * MAXIMUM_SCRIPT_ELEMENT_SIZE, Len(bytes)))

EnvelopeBlock(typeBytes, bytes) ==
  <<OP("OP_FALSE"), OP("OP_IF"), PushData(<<68, 79, 66>>), Num(1), Num(1),
    PushData(typeBytes), OP("OP_0")>>
  \o [k \in 1..Ceil(Len(bytes), MAXIMUM_SCRIPT_ELEMENT_SIZE) |-> PushData(Slice(bytes, k))]
  \o <<OP("OP_ENDIF")>>

RECURSIVE EnvelopeBlocks(_, _, _)
EnvelopeBlocks(types, contents, i) ==
  IF i > Len(contents) THEN <<>>
  ELSE EnvelopeBlock(Utf8Encode(types[i].data), ItemBytes(types[i], contents[i]))
       \o EnvelopeBlocks(types, contents, i + 1)

Count(script, element) == Cardinality({i \in 1..Len(script) : script[i] = element})

BatchBuilt ==
  /\ result.fn = "buildWitnessScript"
  /\ result.outcome = "ok"
  /\ args.options.mediaContent.kind = "array"
  /\ ~args.options.recover

\* C14: for an array of n items the script is the internal key and OP_CHECKSIG
\* once, then n blocks OP_FALSE OP_IF <tag> 1 1 <mediaType[i]> OP_0 <chunks of
\* item i> OP_ENDIF in array order, and no metadata block even when metadata is
\* supplied.
C14_BatchStructure ==
  BatchBuilt =>
    LET o == args.options
        n == Len(o.mediaContent.data)
    IN /\ result.script
            = <<PushData(o.xkey.data), OP("OP_CHECKSIG")>>
              \o EnvelopeBlocks(o.mediaType.data, o.mediaContent.data, 1)
       /\ Count(result.script, OP("OP_CHECKSIG")) = 1
       /\ Count(result.script, OP("OP_IF")) = n
       /\ Count(result.script, OP("OP_ENDIF")) = n
       /\ Count(result.script, PushData(JsonContentType.data)) = 0

C14_Witness ==
  /\ BatchBuilt
  /\ args.options.meta = SmallMeta
  /\ args.options.mediaType.data = <<TextPlain, ImagePng>>
  /\ args.options.mediaContent.data
       = <<AccentedText, Buf(Bytes(MAXIMUM_SCRIPT_ELEMENT_SIZE + 1))>>
  /\ Len(result.script) = 21

SingleBuilt ==
  /\ result.fn = "buildWitnessScript"
  /\ result.outcome = "ok"
  /\ args.options.mediaContent.kind # "array"

\* C15: for a single item with recover false the script is the internal key,
\* OP_CHECKSIG and one block OP_FALSE OP_IF <tag> 1 1 <mediaType> OP_0 <content
\* chunks> OP_ENDIF, followed by a second block with the JSON content type and
\* the chunked JSON metadata if and only if a metadata object was supplied; with
\* recover true the script is the internal key and OP_CHECKSIG alone.
C15_SingleStructure ==
  SingleBuilt =>
    LET o == args.options
        key == <<PushData(o.xkey.data), OP("OP_CHECKSIG")>>
    IN IF o.recover
       THEN result.script = key
       ELSE result.script
              = key
                \o EnvelopeBlock(Utf8Encode(o.mediaType.data),
                                 ItemBytes(o.mediaType, o.mediaContent))
                \o (IF o.meta.kind = "object"
                    THEN EnvelopeBlock(JsonContentType.data, Utf8Encode(o.meta.data))
                    ELSE <<>>)

\* C16: for every input that passes the MissingField check, buildWitnessScript
\* never fails with OversizedElement: every element handed to opPush is at most
\* 520 bytes long.
C16_NeverOversized ==
  result.fn = "buildWitnessScript" =>
    /\ result.outcome # "OversizedElement"
    /\ \A i \in 1..Len(result.script) :
         Len(result.script[i].data) <= MAXIMUM_SCRIPT_ELEMENT_SIZE


\* ======================================================= createPsbt (psbt.ts)
\* ---------------------------------------------------------------- bounds
MaxSpendable == 2
MaxUnspendable == 1
MaxPsbtOutputs == 2

\* ------------------------------------------------------ program constants
\* virtual size one input adds to the transaction the fee estimator sees
InputVSize == 60

\* sequence numbers, written as their distance below the maximum 0xffffffff:
\* a freshly added input has 0xffffffff, setInputSequence is given 0xfffffffd
DefaultSequence == 0
RbfSequence == 2

FundingAddress == "funding"
UtxoSats == {700, 3000}
ScriptTypes == {"witness_v1_taproot", "unknown"}
KnownScriptTypes ==
  {"witness_v1_taproot", "witness_v0_scripthash", "witness_v0_keyhash", "scripthash",
   "pubkeyhash"}

WalletUtxos ==
  [sats : UtxoSats, address : {FundingAddress, "other"}, type : ScriptTypes]

UnsafeUtxos == [sats : {3000}, address : {FundingAddress}, type : {"witness_v1_taproot"}]

RequestedOutputs ==
  UNION {[1..n -> [address : {DestinationAddress}, cardinals : {1000, 1200}]] :
           n \in 0..MaxPsbtOutputs}

PsbtCalls ==
  [fn : {"createPsbt"},
   address : {FundingAddress},
   outputs : RequestedOutputs,
   satsPerByte : FeeRates,
   safeMode : {"on", "off"},
   enableRBF : BOOLEAN,
   safeToSpend : UNION {[1..n -> WalletUtxos] : n \in 0..MaxSpendable},
   unsafe : UNION {[1..n -> UnsafeUtxos] : n \in 0..MaxUnspendable}]

\* ------------------------------------------------------------- data source
\* OrditApi.fetchUnspentUTXOs: type "spendable" asks for the safe-to-spend
\* UTXOs only, type "all" for every UTXO, split by the safe-to-spend flag
fetchUnspentUTXOs(call, type) ==
  [spendableUTXOs |-> call.safeToSpend,
   unspendableUTXOs |-> IF type = "all" THEN call.unsafe ELSE <<>>,
   totalUTXOs |-> Len(call.safeToSpend) + (IF type = "all" THEN Len(call.unsafe) ELSE 0)]

RECURSIVE SumSats(_)
SumSats(utxos) == IF utxos = <<>> THEN 0 ELSE Head(utxos).sats + SumSats(Tail(utxos))

RECURSIVE SumCardinals(_)
SumCardinals(outs) ==
  IF outs = <<>> THEN 0 ELSE Head(outs).cardinals + SumCardinals(Tail(outs))

\* processInput throws for a script type outside the switch
processInputThrows(utxo) == utxo.type \notin KnownScriptTypes

\* psbt.addInput(payload)
addInput(psbtInputs, utxo) ==
  Append(psbtInputs, [sats |-> utxo.sats, address |-> utxo.address,
                      sequence |-> DefaultSequence])

\* psbt.setInputSequence(inputIndex, sequence), inputIndex zero-based
setInputSequenceThrows(psbtInputs, inputIndex) == Len(psbtInputs) <= inputIndex

setInputSequence(psbtInputs, inputIndex, sequence) ==
  [psbtInputs EXCEPT ![inputIndex + 1].sequence = sequence]

\* the index handed to setInputSequence: the position in spendableUTXOs
sequenceIndex(index, psbtInputs) == index

\* for (const [index, utxo] of spendableUTXOs.entries())
RECURSIVE addInputs(_, _, _, _, _)
addInputs(spendableUTXOs, index, psbtInputs, address, enableRBF) ==
  IF index >= Len(spendableUTXOs)
  THEN [error |-> "none", inputs |-> psbtInputs]
  ELSE LET utxo == spendableUTXOs[index + 1]
           added == addInput(psbtInputs, utxo)
           at == sequenceIndex(index, added)
       IN IF utxo.address # address
          THEN addInputs(spendableUTXOs, index + 1, psbtInputs, address, enableRBF)
          ELSE IF processInputThrows(utxo)
          THEN [error |-> "UnsupportedScriptType", inputs |-> psbtInputs]
          ELSE IF ~enableRBF
          THEN addInputs(spendableUTXOs, index + 1, added, address, enableRBF)
          ELSE IF setInputSequenceThrows(added, at)
          THEN [error |-> "InputIndexTooHigh", inputs |-> added]
          ELSE addInputs(spendableUTXOs, index + 1,
                         setInputSequence(added, at, RbfSequence), address, enableRBF)

\* FeeEstimator over the PSBT as it stands: inputs added, outputs not yet
psbtFee(satsPerByte, psbtInputs) ==
  satsPerByte * (BaseVSize + Len(psbtInputs) * InputVSize)

\* spendableUTXOs.concat(safeMode === "off" ? unspendableUTXOs : [])
countedUTXOs(fetched, safeMode) ==
  fetched.spendableUTXOs \o (IF safeMode = "off" THEN fetched.unspendableUTXOs ELSE <<>>)

isChangeOwed_m(remainingBalance) == remainingBalance >= MINIMUM_AMOUNT_IN_SATS

isChangeOwed(remainingBalance) == remainingBalance > MINIMUM_AMOUNT_IN_SATS

totalUTXOs(fetched) == fetched.totalUTXOs

PsbtResult(outcome, psbtInputs, psbtOutputs, networkFee, inputSats, outs) ==
  [fn |-> "createPsbt", outcome |-> outcome, inputs |-> psbtInputs,
   psbtOutputs |-> psbtOutputs, fee |-> networkFee, inputSats |-> inputSats,
   outputs |-> outs]

createPsbt(call) ==
  LET fetched == fetchUnspentUTXOs(call, IF call.safeMode = "off" THEN "all" ELSE "spendable")
      inputSats == SumSats(countedUTXOs(fetched, call.safeMode))
      outputSats == SumCardinals(call.outputs)
      loop == addInputs(fetched.spendableUTXOs, 0, <<>>, call.address, call.enableRBF)
      networkFee == psbtFee(call.satsPerByte, loop.inputs)
      remainingBalance == inputSats - outputSats - networkFee
      outs == IF isChangeOwed(remainingBalance)
              THEN Append(call.outputs,
                          [address |-> call.address, cardinals |-> remainingBalance])
              ELSE call.outputs
  IN IF Len(call.outputs) = 0
     THEN PsbtResult("InvalidRequest", <<>>, <<>>, 0, 0, call.outputs)
     ELSE IF totalUTXOs(fetched) = 0
     THEN PsbtResult("NoSpendableFunds", <<>>, <<>>, 0, 0, call.outputs)
     ELSE IF loop.error # "none"
     THEN PsbtResult(loop.error, loop.inputs, <<>>, 0, inputSats, call.outputs)
     ELSE IF remainingBalance < 0
     THEN PsbtResult("InsufficientBalance", loop.inputs, <<>>, networkFee, inputSats,
                     call.outputs)
     ELSE PsbtResult("ok", loop.inputs, outs, networkFee, inputSats, outs)

\* ----------------------------------------------------------------- actions
PsbtInit ==
  /\ InscriberIdle
  /\ args \in PsbtCalls
  /\ result = NoCall

CreatePsbt ==
  /\ args.fn = "createPsbt"
  /\ result = NoCall
  /\ result' = createPsbt(args)
  /\ UNCHANGED <<inscriberVars, args>>

PsbtNext == CreatePsbt

PsbtSpec == PsbtInit /\ [][PsbtNext]_vars

\* ------------------------------------------------------------------ claims
\* C17: createPsbt fails with InsufficientBalance exactly when the inputs it
\* added sum to less than the requested outputs plus the fee, so the inputs of
\* every transaction it returns cover the outputs and the fee.
C17_BalanceOverAddedInputs ==
  (result.fn = "createPsbt" /\ result.outcome \in {"ok", "InsufficientBalance"}) =>
    LET added == SumSats(result.inputs)
        needed == SumCardinals(args.outputs) + result.fee
    IN /\ result.outcome = "InsufficientBalance" <=> added < needed
       /\ result.outcome = "ok" => added >= needed

PsbtReturned == result.fn = "createPsbt" /\ result.outcome = "ok"

\* the total the balance check works with: every fetched UTXO
InputTotal(call) ==
  SumSats(call.safeToSpend) + (IF call.safeMode = "off" THEN SumSats(call.unsafe) ELSE 0)

\* C18: with remainder = input total - requested outputs total - fee >= 0, the
\* transaction's outputs are the requested outputs in their order followed by
\* exactly one change output to the funding address worth the remainder when the
\* remainder is strictly above the dust threshold, and the requested outputs
\* alone when it is at or below the threshold.
C18_ChangeRule ==
  PsbtReturned =>
    LET remainder == InputTotal(args) - SumCardinals(args.outputs) - result.fee
        change == [address |-> FundingAddress, cardinals |-> remainder]
    IN /\ remainder >= 0
       /\ remainder > MINIMUM_AMOUNT_IN_SATS =>
            result.psbtOutputs = Append(args.outputs, change)
       /\ remainder <= MINIMUM_AMOUNT_IN_SATS => result.psbtOutputs = args.outputs

C18_Witness ==
  /\ PsbtReturned
  /\ Len(args.outputs) = 2
  /\ Len(result.psbtOutputs) = 3
  /\ result.psbtOutputs[3].address = FundingAddress
  /\ result.psbtOutputs[3].cardinals > MINIMUM_AMOUNT_IN_SATS
  /\ SubSeq(result.psbtOutputs, 1, 2) = args.outputs

\* the UTXOs createPsbt may spend: the spendable ones at the funding address
\* when safeMode is on, every UTXO when it is off
AllowedUTXOs(call) ==
  IF call.safeMode = "on"
  THEN SelectSeq(call.safeToSpend, LAMBDA u : u.address = call.address)
  ELSE call.safeToSpend \o call.unsafe

\* C19: createPsbt fails with NoSpendableFunds whenever the UTXOs it may spend
\* are none, and never builds a transaction with zero inputs.
C19_NoFundsNoTransaction ==
  (result.fn = "createPsbt" /\ Len(args.outputs) > 0) =>
    /\ AllowedUTXOs(args) = <<>> => result.outcome = "NoSpendableFunds"
    /\ result.outcome = "ok" => Len(result.inputs) > 0

\* C20: when replace-by-fee is requested every input createPsbt adds carries the
\* replaceable sequence number, also when fetched UTXOs of another address are
\* skipped; when it is not requested every input keeps its sequence number.
C20_EveryInputReplaceable ==
  result.fn = "createPsbt" =>
    \A i \in 1..Len(result.inputs) :
      result.inputs[i].sequence
        = IF args.enableRBF THEN RbfSequence ELSE DefaultSequence

\* C21: after createPsbt returns or fails, the caller's outputs list holds
\* exactly the elements it held before the call, so a second call with the same
\* list and the same UTXOs yields the same transaction.
C21_OutputsListUntouched ==
  result.fn = "createPsbt" =>
    /\ result.outputs = args.outputs
    /\ LET again == createPsbt([args EXCEPT !.outputs = result.outputs])
       IN /\ again.outcome = result.outcome
          /\ again.inputs = result.inputs
          /\ again.psbtOutputs = result.psbtOutputs


\* ================================================ BRC20TransferBase (brc20)
\* ---------------------------------------------------------------- bounds
MaxTokens == 2

Ticks == {"ordi", "sats"}
TokenBalances ==
  [tick : Ticks, total : {0, 1000}, available : {500, 700}, transferable : {500, 700}]
Amounts == {500, 600}

\* what datasource.getAddressTokens({ address }) answers for the holder
Ledgers == UNION {[1..n -> TokenBalances] : n \in 0..MaxTokens}

Brc20Calls ==
  [fn : {"getBalances", "hasEnoughTransferableBalance", "hasEnoughOverallBalance"},
   tick : {"ordi"},
   amount : Amounts,
   ledger : Ledgers,
   datasourceOk : BOOLEAN]

\* balances.find((b) => b.tick === tick): the first match, or undefined
RECURSIVE find(_, _)
find(balances, tick) ==
  IF balances = <<>> THEN <<>>
  ELSE IF Head(balances).tick = tick THEN <<Head(balances)>>
  ELSE find(Tail(balances), tick)

getBalances(call) ==
  IF ~call.datasourceOk
  THEN [outcome |-> "DatasourceError", total |-> 0, available |-> 0, transferable |-> 0]
  ELSE IF find(call.ledger, call.tick) = <<>>
  THEN [outcome |-> "NoBalance", total |-> 0, available |-> 0, transferable |-> 0]
  ELSE LET balance == find(call.ledger, call.tick)[1]
       IN [outcome |-> "ok", total |-> balance.total, available |-> balance.available,
           transferable |-> balance.transferable]

atLeast_m(balance, amount) == balance > amount

\* transferable >= amount, available >= amount
atLeast(balance, amount) == balance >= amount

hasEnoughTransferableBalance(call) ==
  LET balances == getBalances(call)
  IN IF balances.outcome # "ok"
     THEN [fn |-> call.fn, outcome |-> balances.outcome, value |-> FALSE]
     ELSE [fn |-> call.fn, outcome |-> "ok",
           value |-> atLeast(balances.transferable, call.amount)]

hasEnoughOverallBalance(call) ==
  LET balances == getBalances(call)
  IN IF balances.outcome # "ok"
     THEN [fn |-> call.fn, outcome |-> balances.outcome, value |-> FALSE]
     ELSE [fn |-> call.fn, outcome |-> "ok",
           value |-> atLeast(balances.available, call.amount)]

\* ----------------------------------------------------------------- actions
Brc20Init ==
  /\ InscriberIdle
  /\ args \in Brc20Calls
  /\ result = NoCall

GetBalances ==
  /\ args.fn = "getBalances"
  /\ result = NoCall
  /\ result' = [fn |-> args.fn, outcome |-> getBalances(args).outcome,
                value |-> getBalances(args)]
  /\ UNCHANGED <<inscriberVars, args>>

HasEnoughTransferableBalance ==
  /\ args.fn = "hasEnoughTransferableBalance"
  /\ result = NoCall
  /\ result' = hasEnoughTransferableBalance(args)
  /\ UNCHANGED <<inscriberVars, args>>

HasEnoughOverallBalance ==
  /\ args.fn = "hasEnoughOverallBalance"
  /\ result = NoCall
  /\ result' = hasEnoughOverallBalance(args)
  /\ UNCHANGED <<inscriberVars, args>>

Brc20Next == GetBalances \/ HasEnoughTransferableBalance \/ HasEnoughOverallBalance

Brc20Spec == Brc20Init /\ [][Brc20Next]_vars

\* ------------------------------------------------------------------ claims
\* the holder's records for the ticker, in ledger order
RecordsFor(ledger, tick) == SelectSeq(ledger, LAMBDA b : b.tick = tick)

\* C22: with the holder's record {total, available, transferable} for the
\* ticker, hasEnoughTransferableBalance(amount) is true exactly when
\* transferable >= amount and hasEnoughOverallBalance(amount) exactly when
\* available >= amount, whatever total is; both fail with NoBalance exactly when
\* the holder has no record for the ticker.
C22_BalanceGating ==
  (result.fn \in {"hasEnoughTransferableBalance", "hasEnoughOverallBalance"}
     /\ args.datasourceOk) =>
    LET records == RecordsFor(args.ledger, args.tick)
    IN /\ result.outcome = "NoBalance" <=> records = <<>>
       /\ records # <<>> =>
            /\ result.outcome = "ok"
            /\ result.fn = "hasEnoughTransferableBalance" =>
                 (result.value <=> records[1].transferable >= args.amount)
            /\ result.fn = "hasEnoughOverallBalance" =>
                 (result.value <=> records[1].available >= args.amount)

C22_Witness ==
  /\ result.fn = "hasEnoughTransferableBalance"
  /\ result.outcome = "ok"
  /\ result.value
  /\ args.amount = 500
  /\ args.ledger = <<[tick |-> "sats", total |-> 1000, available |-> 700,
                      transferable |-> 700],
                     [tick |-> "ordi", total |-> 0, available |-> 700,
                      transferable |-> 500]>>


\* ================================================= Inscriber, further claims
\* C23: whenever ready is true and no dry run is active a funding UTXO is
\* recorded, so when isReady() returns true to a caller with no other call in
\* flight, a build() that follows does not fail with NotReady.
C23_ReadyImpliesFunded ==
  /\ []((ready /\ ~previewMode) => ~Falsy(suitableUnspent))
  /\ [][\A opts \in ReadyOptions, lookupOk \in BOOLEAN :
          (/\ pc = "idle"
           /\ IsReady(opts, lookupOk)
           /\ ret' = [call |-> "isReady", outcome |-> "ok", value |-> TRUE])
            => ~NotReady(suitableUnspent', payment')]_vars

\* C24: whenever generateCommit() or recover() has terminated, with a result or
\* with an error, previewMode is false and the recorded funding UTXO is not the
\* placeholder.
C24_DryRunStateDiscarded ==
  (pc = "idle" /\ ret.call \in {"generateCommit", "recover"}) =>
    /\ ~previewMode
    /\ suitableUnspent # getDummyP2TRInput

\* the fields of the Inscriber, the outcome of the last call apart
inscriberFields ==
  <<ready, commitAddress, payment, suitableUnspent, recovery, recoverAmount,
    previewMode, inputs, outputs, fee, outputAmount, state>>

\* no commit address or no fee yet
NoCommitYet == commitAddress = "null" \/ fee = 0

\* C25: isReady() and fetchAndSelectSuitableUnspent() called while the
\* Inscriber has no commit address or no fee yet fail with an error: they do
\* not return false, do not query the UTXO source, and leave the state as it was.
C25_FailFastBeforeCommit ==
  [][\A opts \in ReadyOptions, lookupOk \in BOOLEAN :
       /\ (NoCommitYet /\ IsReady(opts, lookupOk))
            => /\ ret' = [call |-> "isReady", outcome |-> "InvalidTx"]
               /\ UNCHANGED inscriberFields
       /\ (NoCommitYet
             /\ FetchAndSelectSuitableUnspent(opts, lookupOk))
            => /\ ret'.call = "fetchAndSelectSuitableUnspent"
               /\ ret'.outcome \in {"InvalidTx", "PreviewModeRestricted"}
               /\ UNCHANGED inscriberFields]_vars

C25_Witness ==
  /\ ret = [call |-> "isReady", outcome |-> "InvalidTx"]
  /\ pc = "idle"
  /\ NoCommitYet
  /\ commitAddress = "null"
  /\ ~previewMode
  /\ chain # <<>>
  /\ ~ready

====
